---- MODULE Spec2Model ----
(***************************************************************************)
(* GitLab importer: authenticated request executor, project resolver,     *)
(* issue fetcher, mapping engine and aggregator                            *)
(* (packages/import/src/importers/gitlab/client.ts and GitlabImporter.ts). *)
(*                                                                         *)
(* Strings of the program are modelled as TLA+ strings where the program   *)
(* only compares them (labels, paths), and as sequences of tokens where    *)
(* the program searches or concatenates them (note bodies, messages).      *)
(***************************************************************************)
EXTENDS Integers, Sequences, FiniteSets, TLC

(* ------------------------------ bounds -------------------------------- *)

MaxLabels == 3
MaxBody == 3
MaxProjects == 2
MaxIssues == 2

(* --------------------------- generic helpers -------------------------- *)

Range(s) == {s[i] : i \in 1..Len(s)}

SeqsUpTo(S, n) == UNION {[1..k -> S] : k \in 0..n}

\* sequences without repetition (an issue list never holds one issue twice)
DistinctSeqsUpTo(S, n) ==
  {s \in SeqsUpTo(S, n) : \A i, j \in 1..Len(s) : i # j => s[i] # s[j]}

EmptyDict == [k \in {} |-> 0]

\* Array.prototype.indexOf / find: the first index whose element satisfies
\* the test, 0 when there is none (JavaScript's -1 / undefined)
RECURSIVE FirstIndexFrom(_, _, _)
FirstIndexFrom(s, S, i) ==
  IF i > Len(s) THEN 0
  ELSE IF s[i] \in S THEN i
  ELSE FirstIndexFrom(s, S, i + 1)

FirstIndex(s, S) == FirstIndexFrom(s, S, 1)

\* Array.prototype.splice(index, 1)
Splice(s, i) == SubSeq(s, 1, i - 1) \o SubSeq(s, i + 1, Len(s))

(* --------------------- JavaScript object lookups ---------------------- *)

\* The lookup tables are plain objects ({}), so `key in table` and
\* table[key] also see what Object.prototype provides.
ObjectPrototype ==
  ("constructor" :> "[Function: Object]") @@
  ("toString" :> "[Function: toString]") @@
  ("valueOf" :> "[Function: valueOf]") @@
  ("hasOwnProperty" :> "[Function: hasOwnProperty]")

\* `key in table`
In(key, table) == key \in DOMAIN table \/ key \in DOMAIN ObjectPrototype

\* table[key], for a key that is `in` the table
Get(key, table) ==
  IF key \in DOMAIN table THEN table[key] ELSE ObjectPrototype[key]

(* ----------------------------- the tables ----------------------------- *)

statuses ==
  ("Status::On hold" :> "Backlog") @@
  ("Needs attention" :> "Backlog") @@
  ("Status::Review" :> "Review") @@
  ("Status::Estimate" :> "Estimate") @@
  ("Status::Refinement" :> "Backlog") @@
  ("Status::Ready for Release" :> "Done") @@
  ("Status::Approved Internally" :> "Done") @@
  ("Status::In progress" :> "In Progress") @@
  ("Status::To-do" :> "Todo")

\* the second copy of the client module carries an older table
statusesOld ==
  ("Status::On hold" :> "Todo") @@
  ("Status::Review" :> "Review") @@
  ("Status::Estimate" :> "Estimate") @@
  ("Status::Refinement" :> "Todo") @@
  ("Status::Ready for Release" :> "Done") @@
  ("Status::Approved Internally" :> "Review") @@
  ("Status::In progress" :> "In Progress") @@
  ("Status::To-do" :> "Todo")

DefaultStatus == "backlog"

priorityMap ==
  ("Prio :: Web" :> 0) @@
  ("Prio :: 1" :> 2) @@
  ("Prio :: 2" :> 3) @@
  ("Prio :: 3" :> 4)

removableLabels ==
  << "Prio :: Web", "Prio :: 1", "Prio :: 2", "Prio :: 3",
     "Status::On hold", "Status::Review", "Status::Estimate",
     "Status::Ready for Release", "Status::Approved Internally",
     "Status::In progress", "Status::To-do",
     "Env :: Fieldpiece", "Env :: My.Fieldpiece", "Env :: University",
     "Env :: Brandportal" >>

GitlabLabelsToLinearLabels ==
  ("Type::Bug" :> "Bug") @@
  ("Type::Epic" :> "Epic") @@
  ("Type::Feature" :> "Feature") @@
  ("Type::Optimization" :> "Optimization") @@
  ("Status::Refinement" :> "Refinement") @@
  ("Frontend" :> "Front-end") @@
  ("Backend" :> "Back-end")

users ==
  (2 :> "floris@niice.nl") @@
  (20 :> "jorn@niice.nl") @@
  (49 :> "ken@niice.nl") @@
  (57 :> "mik@niice.nl") @@
  (84 :> "tim@niice.nl")

(* ------------------------- the label universe ------------------------- *)

\* Labels the service may return: markers of every table, a priority marker
\* the priority table does not know ("Prio :: 4"), an ordinary label, and a
\* label that is the name of a property every object inherits.
Labels ==
  { "Prio :: 1", "Prio :: 2", "Prio :: Web", "Prio :: 4",
    "Status::To-do", "Status::Review", "Status::Refinement",
    "Needs attention", "Env :: University",
    "Type::Bug", "Frontend", "documentation", "constructor" }

\* label.includes('Prio :: '): the labels that contain the substring
IncludesPrio ==
  {"Prio :: Web", "Prio :: 1", "Prio :: 2", "Prio :: 3", "Prio :: 4"}

LabelLists == SeqsUpTo(Labels, MaxLabels)

(* ---------------------------- mapping engine -------------------------- *)

\* labels.forEach(label => { if (label in statuses) { newStatus = ...; return; } })
\* the return leaves the callback only, the scan goes on
RECURSIVE ScanStatuses(_, _, _)
ScanStatuses(table, labels, newStatus) ==
  IF labels = <<>> THEN newStatus
  ELSE ScanStatuses(table, Tail(labels),
         IF In(Head(labels), table) THEN Get(Head(labels), table)
         ELSE newStatus)

mapStatusFromLabels(labels) == ScanStatuses(statuses, labels, DefaultStatus)

mapStatusFromLabelsOld(labels) == ScanStatuses(statusesOld, labels, DefaultStatus)

\* labels.find(label => label.includes('Prio :: ')) || 0
matchedPrioLabel(labels) ==
  LET i == FirstIndex(labels, IncludesPrio)
  IN  IF i = 0 THEN "0" ELSE labels[i]

\* variant: the last label containing the substring decides
mapPriorityLast(labels) ==
  LET hits == {i \in 1..Len(labels) : labels[i] \in IncludesPrio}
      last == IF hits = {} THEN "0"
              ELSE labels[CHOOSE i \in hits : \A j \in hits : j <= i]
  IN  IF last \in DOMAIN priorityMap THEN priorityMap[last] ELSE 0

\* priorityMap[matchedPrioLabel] || 0
mapPriority(labels) ==
  LET m == matchedPrioLabel(labels)
  IN  IF m \in DOMAIN priorityMap THEN priorityMap[m]
      ELSE 0

\* for each removable label: indexOf, then splice(index, 1)
RECURSIVE RemoveLoop(_, _)
RemoveLoop(labels, i) ==
  IF i > Len(removableLabels) THEN labels
  ELSE LET index == FirstIndex(labels, {removableLabels[i]})
       IN  RemoveLoop(IF index > 0 THEN Splice(labels, index) ELSE labels,
                      i + 1)

\* for each element: if (labels[i] in table) labels[i] = table[labels[i]]
RenameLoop(labels) ==
  [i \in 1..Len(labels) |->
     IF In(labels[i], GitlabLabelsToLinearLabels)
     THEN Get(labels[i], GitlabLabelsToLinearLabels)
     ELSE labels[i]]

mapLabels(labels) == RenameLoop(RemoveLoop(labels, 1))

\* users[id]; "undefined" for an id outside the directory
mapGitlabIdToEmail(id) ==
  IF id \in DOMAIN users THEN users[id] ELSE "undefined"

(* ------------------------ request executor ---------------------------- *)

Statuses == {200, 401, 404, 500}

\* variant: the status of the response is not looked at
gitlabClientNoThrow(status, json) ==
  [ok |-> TRUE, value |-> json, message |-> <<>>]

\* one request: the decoded JSON body on 200, a thrown Error otherwise
gitlabClient(status, json) ==
  IF status = 401 THEN [ok |-> FALSE, value |-> <<>>, message |-> <<"Invalid API key">>]
  ELSE IF status = 404 THEN [ok |-> FALSE, value |-> <<>>, message |-> <<"Not found">>]
  ELSE IF status # 200
    THEN [ok |-> FALSE, value |-> <<>>,
          message |-> <<"Unexpected status code: ", ToString(status)>>]
  ELSE [ok |-> TRUE, value |-> json, message |-> <<>>]

(* -------------------------- project resolver -------------------------- *)

ProjectNames == {"foo", "bar-foo"}

\* entries the project search may return; the same path can occur in two
\* namespaces, and the search matches substrings
ProjectPool ==
  { [path |-> "foo", id |-> 11], [path |-> "bar-foo", id |-> 12],
    [path |-> "foo-lib", id |-> 13], [path |-> "foo", id |-> 14] }

ProjectLists == SeqsUpTo(ProjectPool, MaxProjects)

DestructureError ==
  <<"Cannot destructure property 'id' of 'projects.find(...)' as it is undefined.">>

ProjectNotFound(projectName) == <<"Project ", projectName, " not found">>

\* projects.find(project => project.path === projectName): index, 0 for undefined
FindProject(projects, projectName) ==
  LET hits == {i \in 1..Len(projects) : projects[i].path = projectName}
  IN  IF hits = {} THEN 0 ELSE CHOOSE i \in hits : \A j \in hits : i <= j

\* .then(projects => { const { id } = projects.find(...); if (!id) throw ...; return id })
\* .catch(error => { throw new Error(`Failed to get project: ${error.message}`) })
getGitlabProjectId(status, projects, projectName) ==
  LET r == gitlabClient(status, projects)
      i == FindProject(r.value, projectName)
  IN  IF ~r.ok
        THEN [ok |-> FALSE, id |-> 0,
              message |-> <<"Failed to get project: ">> \o r.message]
      ELSE IF i = 0
        THEN [ok |-> FALSE, id |-> 0,
              message |-> <<"Failed to get project: ">> \o DestructureError]
      ELSE IF r.value[i].id = 0
        THEN [ok |-> FALSE, id |-> 0,
              message |-> <<"Failed to get project: ">> \o ProjectNotFound(projectName)]
      ELSE [ok |-> TRUE, id |-> r.value[i].id, message |-> <<>>]

(* ---------------------------- note bodies ----------------------------- *)

UploadsHost == "https://git.niice.nl/niicedigitalmarketing/"

\* a body is a sequence of tokens: running text, the path "/uploads/", and
\* the pieces of an absolute URL
BodyTokens == {"text", "/uploads/", UploadsHost} \cup ProjectNames

Bodies == SeqsUpTo(BodyTokens, MaxBody)

\* note.body.replace("/uploads/", "https://.../" + projectName + "/uploads/"):
\* a string pattern replaces the first occurrence only
ReplaceUploads(body, projectName) ==
  LET i == FirstIndex(body, {"/uploads/"})
  IN  IF i = 0 THEN body
      ELSE SubSeq(body, 1, i - 1)
           \o <<UploadsHost, projectName, "/uploads/">>
           \o SubSeq(body, i + 1, Len(body))

RECURSIVE FilterNotes(_)
FilterNotes(notes) ==
  IF notes = <<>> THEN <<>>
  ELSE IF Head(notes).system THEN FilterNotes(Tail(notes))
  ELSE <<Head(notes)>> \o FilterNotes(Tail(notes))

\* notes.filter(note => !note.system).map(note => ({id, body, userId, ...}))
MapNotes(notes, projectName) ==
  LET kept == FilterNotes(notes)
  IN  [i \in 1..Len(kept) |->
         [id |-> kept[i].id,
          body |-> ReplaceUploads(kept[i].body, projectName),
          userId |-> kept[i].author]]

(* --------------------------- service data ----------------------------- *)

Floris == [id |-> 2, name |-> "Floris", avatar_url |-> "floris.png"]
FlorisRenamed == [id |-> 2, name |-> "Floris K", avatar_url |-> "floris2.png"]
Jorn == [id |-> 20, name |-> "Jorn", avatar_url |-> "jorn.png"]
Guest == [id |-> 99, name |-> "Guest", avatar_url |-> "guest.png"]

\* issues the issue list may hold (iid is unique within the project)
IssuePool ==
  { [id |-> 101, iid |-> 1, title |-> "crash", description |-> "it crashes",
     web_url |-> "https://git.niice.nl/p/-/issues/1",
     labels |-> <<"Type::Bug", "Status::To-do", "Prio :: 2">>,
     assignees |-> <<Floris, Jorn>>],
    [id |-> 102, iid |-> 2, title |-> "slow", description |-> "",
     web_url |-> "https://git.niice.nl/p/-/issues/2",
     labels |-> <<"Prio :: 4", "Prio :: 1", "Type::Bug", "documentation">>,
     assignees |-> <<FlorisRenamed>>],
    [id |-> 103, iid |-> 3, title |-> "idea", description |-> "an idea",
     web_url |-> "https://git.niice.nl/p/-/issues/3",
     labels |-> <<>>,
     assignees |-> <<>>],
    [id |-> 104, iid |-> 4, title |-> "menu", description |-> "menu is off",
     web_url |-> "https://git.niice.nl/p/-/issues/4",
     labels |-> <<"Needs attention", "Status::Review", "Frontend", "constructor">>,
     assignees |-> <<Guest, Floris>>] }

IssueLists == DistinctSeqsUpTo(IssuePool, MaxIssues)

\* what the notes endpoint may answer for one issue
NoteLists ==
  { <<>>,
    << [id |-> 1, system |-> TRUE, body |-> <<"text">>, author |-> 2],
       [id |-> 2, system |-> FALSE, body |-> <<"text", "/uploads/", "text">>,
        author |-> 20] >>,
    << [id |-> 3, system |-> FALSE, body |-> <<"text">>, author |-> 99] >> }

(* ------------------------------- state -------------------------------- *)

VARIABLES
  pc,           \* where the import run stands
  projectName,  \* GitLabImporter.projectName
  inflight,     \* requests sent and not yet answered
  requests,     \* every request sent and every response received, in order
  projectId,    \* const projectId of import()
  issueList,    \* the issue list as the service returned it
  issues,       \* the fetcher's issues, comments attached as they arrive
  idx,          \* the issue whose notes are awaited
  result,       \* the ImportResult handed to the caller
  error,        \* message of the error the run ended in
  fn,           \* a single call of one function: its name,
  argList,      \*   its input when that is a list of strings (labels, a body),
  argId,        \*   when it is a user id,
  argSearch,    \*   when it is the answer to the project search,
  retText,      \*   its value when that is a string (a status, an email),
  retNumber,    \*   when it is a number (a priority),
  retList,      \*   when it is a list of strings (labels, a body),
  retProject    \*   when it is the resolver's outcome

runVars == <<pc, projectName, inflight, requests, projectId, issueList, issues,
             idx, result, error>>
callVars == <<fn, argList, argId, argSearch, retText, retNumber, retList, retProject>>
vars == <<runVars, callVars>>

NoResult == [issues |-> <<>>, labels |-> EmptyDict, users |-> EmptyDict]

Send(endpoint, iid) ==
  [ev |-> "send", endpoint |-> endpoint, iid |-> iid, status |-> 0]
Recv(endpoint, iid, status) ==
  [ev |-> "recv", endpoint |-> endpoint, iid |-> iid, status |-> status]

(* ------------------------------ aggregator ---------------------------- *)

\* variant: the array itself is passed on
NoSpread(labels) == [array |-> labels, fresh |-> FALSE]

\* [...issue.labels]: a fresh array with the same elements
Spread(labels) == [array |-> labels, fresh |-> TRUE]

\* issue.labels after a call that changed its argument array in place
Held(held, a, mutated) == IF a.fresh THEN held ELSE mutated

\* variant: an id already in the dictionary keeps its record
MergeUsersFirstWins(dict, assignees) ==
  LET ids == {assignees[i].id : i \in 1..Len(assignees)} \ DOMAIN dict
      first(id) == CHOOSE i \in 1..Len(assignees) :
                     /\ assignees[i].id = id
                     /\ \A j \in 1..(i - 1) : assignees[j].id # id
  IN  [id \in ids |-> [name |-> assignees[first(id)].name,
                       avatarUrl |-> assignees[first(id)].avatar_url]] @@ dict

\* for (const assignee of issue.assignees) importData.users[assignee.id] = {...}
RECURSIVE MergeUsers(_, _)
MergeUsers(dict, assignees) ==
  IF assignees = <<>> THEN dict
  ELSE MergeUsers(
         (Head(assignees).id :> [name |-> Head(assignees).name,
                                 avatarUrl |-> Head(assignees).avatar_url]) @@ dict,
         Tail(assignees))

\* for (const label of mapLabels([...issue.labels])) importData.labels[label] = {name: label}
RECURSIVE MergeLabels(_, _)
MergeLabels(dict, labels) ==
  IF labels = <<>> THEN dict
  ELSE MergeLabels((Head(labels) :> [name |-> Head(labels)]) @@ dict, Tail(labels))

\* one iteration of the loop over the fetched issues: the ImportResult so far
\* and the issue become the next ImportResult and the issue as the calls left it
ImportIssue(importData, issue) ==
  LET a1 == Spread(issue.labels)
      labels == mapLabels(a1.array)
      held1 == Held(issue.labels, a1, labels)
      a2 == Spread(held1)
      priority == mapPriority(a2.array)
      a3 == Spread(held1)
      status == mapStatusFromLabels(a3.array)
      a4 == Spread(held1)
      merged == mapLabels(a4.array)
      held2 == Held(held1, a4, merged)
  IN  [data |->
         [issues |-> Append(importData.issues,
            [title |-> issue.title,
             description |-> <<issue.description,
                               "\n\n[View original issue in Gitlab](",
                               issue.web_url, ")">>,
             url |-> issue.web_url,
             labels |-> labels,
             priority |-> priority,
             status |-> status,
             comments |-> issue.comments,
             assigneeId |-> IF Len(issue.assignees) > 0
                            THEN mapGitlabIdToEmail(issue.assignees[1].id)
                            ELSE "undefined"]),
          users |-> MergeUsers(importData.users, issue.assignees),
          labels |-> MergeLabels(importData.labels, merged)],
       issue |-> [issue EXCEPT !.labels = held2]]

\* the loop: [data, issues] after the issues from index i on are imported
RECURSIVE ImportLoop(_, _, _)
ImportLoop(importData, iss, i) ==
  IF i > Len(iss) THEN [data |-> importData, issues |-> iss]
  ELSE LET step == ImportIssue(importData, iss[i])
       IN  ImportLoop(step.data, [iss EXCEPT ![i] = step.issue], i + 1)

(* ------------------------------ the fetcher --------------------------- *)

\* issueList.map(issue => ({id, iid, title, ...})): the projected issues;
\* comments are attached later
ProjectIssues(list) ==
  [i \in 1..Len(list) |->
     [id |-> list[i].id, iid |-> list[i].iid, title |-> list[i].title,
      description |-> list[i].description, web_url |-> list[i].web_url,
      labels |-> list[i].labels, assignees |-> list[i].assignees,
      comments |-> <<>>]]

\* variant: the notes of all issues are requested together
NotesToRequestAllAtOnce(iss, done) ==
  IF done = 0 THEN [k \in 1..Len(iss) |-> k] ELSE <<>>

\* for (const issue of issues) { issue.comments = await ... }: the issues
\* whose notes are requested once `done` of them have their comments
NotesToRequest(iss, done) ==
  IF done < Len(iss) THEN <<done + 1>> ELSE <<>>

SendNotes(iss, done) ==
  LET ks == NotesToRequest(iss, done)
  IN  [j \in 1..Len(ks) |-> Send("notes", iss[ks[j]].iid)]

(* ---------------------------- the import run ------------------------- *)

Init ==
  /\ pc = "constructed"
  /\ projectName \in ProjectNames
  /\ inflight = 0
  /\ requests = <<>>
  /\ projectId = 0
  /\ issueList = <<>>
  /\ issues = <<>>
  /\ idx = 0
  /\ result = NoResult
  /\ error = <<>>
  /\ fn = "none"
  /\ argList = <<>>
  /\ argId = 0
  /\ argSearch = [status |-> 0, projects |-> <<>>]
  /\ retText = ""
  /\ retNumber = 0
  /\ retList = <<>>
  /\ retProject = [ok |-> FALSE, id |-> 0, message |-> <<>>]

\* import() is called: getGitlabProjectId sends the project search
Import ==
  /\ pc = "constructed"
  /\ pc' = "project"
  /\ requests' = Append(requests, Send("projects", 0))
  /\ inflight' = inflight + 1
  /\ UNCHANGED <<projectName, projectId, issueList, issues, idx, result, error>>
  /\ UNCHANGED callVars

\* the project search is answered; on success import() goes on to
\* getGitlabIssuesFromRepo, which sends the issue list request
ProjectResponse ==
  /\ pc = "project"
  /\ \E status \in Statuses, projects \in ProjectLists :
       LET r == getGitlabProjectId(status, projects, projectName)
           received == Append(requests, Recv("projects", 0, status))
       IN  IF r.ok
           THEN /\ projectId' = r.id
                /\ pc' = "issues"
                /\ requests' = Append(received, Send("issues", 0))
                /\ inflight' = inflight
                /\ error' = error
           ELSE /\ projectId' = projectId
                /\ pc' = "error"
                /\ requests' = received
                /\ inflight' = inflight - 1
                /\ error' = r.message
  /\ UNCHANGED <<projectName, issueList, issues, idx, result>>
  /\ UNCHANGED callVars

\* the issue list is answered; on success the first notes request is sent,
\* or, with no issue, import() builds and returns the ImportResult
IssuesResponse ==
  /\ pc = "issues"
  /\ \E status \in Statuses, list \in IssueLists :
       LET r == gitlabClient(status, list)
           received == Append(requests, Recv("issues", 0, status))
           iss == ProjectIssues(r.value)
           sends == SendNotes(iss, 0)
           fin == ImportLoop(NoResult, iss, 1)
       IN  IF ~r.ok
           THEN /\ pc' = "error"
                /\ error' = <<"Failed to get issues: ">> \o r.message
                /\ requests' = received
                /\ inflight' = inflight - 1
                /\ UNCHANGED <<issueList, issues, idx, result>>
           ELSE IF Len(iss) = 0
           THEN /\ pc' = "done"
                /\ issueList' = r.value
                /\ issues' = fin.issues
                /\ result' = fin.data
                /\ requests' = received
                /\ inflight' = inflight - 1
                /\ UNCHANGED <<idx, error>>
           ELSE /\ pc' = "comments"
                /\ issueList' = r.value
                /\ issues' = iss
                /\ idx' = 1
                /\ requests' = received \o sends
                /\ inflight' = inflight - 1 + Len(sends)
                /\ UNCHANGED <<result, error>>
  /\ UNCHANGED <<projectName, projectId>>
  /\ UNCHANGED callVars

\* the notes of issue idx are answered; on success the next notes request is
\* sent, or, after the last issue, import() builds and returns the ImportResult
NotesResponse ==
  /\ pc = "comments"
  /\ \E status \in Statuses, notes \in NoteLists :
       LET r == gitlabClient(status, notes)
           received == Append(requests, Recv("notes", issues[idx].iid, status))
           iss == [issues EXCEPT ![idx].comments = MapNotes(r.value, projectName)]
           sends == SendNotes(iss, idx)
           fin == ImportLoop(NoResult, iss, 1)
       IN  IF ~r.ok
           THEN /\ pc' = "error"
                /\ error' = <<"Failed to get issues: ">> \o r.message
                /\ requests' = received
                /\ inflight' = inflight - 1
                /\ UNCHANGED <<issues, idx, result>>
           ELSE IF idx = Len(issues)
           THEN /\ pc' = "done"
                /\ issues' = fin.issues
                /\ result' = fin.data
                /\ requests' = received
                /\ inflight' = inflight - 1
                /\ UNCHANGED <<idx, error>>
           ELSE /\ pc' = "comments"
                /\ issues' = iss
                /\ idx' = idx + 1
                /\ requests' = received \o sends
                /\ inflight' = inflight - 1 + Len(sends)
                /\ UNCHANGED <<result, error>>
  /\ UNCHANGED <<projectName, projectId, issueList>>
  /\ UNCHANGED callVars

Next == Import \/ ProjectResponse \/ IssuesResponse \/ NotesResponse

Spec == Init /\ [][Next]_vars

(* ----------------------- single calls of a function ------------------- *)

AssigneeIds == {2, 20, 49, 57, 84, 99}

CallMapStatusFromLabels ==
  /\ fn = "none"
  /\ \E labels \in LabelLists :
       /\ argList' = labels
       /\ retText' = mapStatusFromLabels(labels)
  /\ fn' = "mapStatusFromLabels"
  /\ UNCHANGED <<argId, argSearch, retNumber, retList, retProject>>
  /\ UNCHANGED runVars

CallMapStatusFromLabelsOld ==
  /\ fn = "none"
  /\ \E labels \in LabelLists :
       /\ argList' = labels
       /\ retText' = mapStatusFromLabelsOld(labels)
  /\ fn' = "mapStatusFromLabelsOld"
  /\ UNCHANGED <<argId, argSearch, retNumber, retList, retProject>>
  /\ UNCHANGED runVars

CallMapPriority ==
  /\ fn = "none"
  /\ \E labels \in LabelLists :
       /\ argList' = labels
       /\ retNumber' = mapPriority(labels)
  /\ fn' = "mapPriority"
  /\ UNCHANGED <<argId, argSearch, retText, retList, retProject>>
  /\ UNCHANGED runVars

CallMapLabels ==
  /\ fn = "none"
  /\ \E labels \in LabelLists :
       /\ argList' = labels
       /\ retList' = mapLabels(labels)
  /\ fn' = "mapLabels"
  /\ UNCHANGED <<argId, argSearch, retText, retNumber, retProject>>
  /\ UNCHANGED runVars

CallMapGitlabIdToEmail ==
  /\ fn = "none"
  /\ \E id \in AssigneeIds :
       /\ argId' = id
       /\ retText' = mapGitlabIdToEmail(id)
  /\ fn' = "mapGitlabIdToEmail"
  /\ UNCHANGED <<argList, argSearch, retNumber, retList, retProject>>
  /\ UNCHANGED runVars

\* the rewriting of one note body, for the importer's project name
CallReplaceUploads ==
  /\ fn = "none"
  /\ \E body \in Bodies :
       /\ argList' = body
       /\ retList' = ReplaceUploads(body, projectName)
  /\ fn' = "replace"
  /\ UNCHANGED <<argId, argSearch, retText, retNumber, retProject>>
  /\ UNCHANGED runVars

\* the resolver, for the importer's project name
CallGetGitlabProjectId ==
  /\ fn = "none"
  /\ \E status \in Statuses, projects \in ProjectLists :
       /\ argSearch' = [status |-> status, projects |-> projects]
       /\ retProject' = getGitlabProjectId(status, projects, projectName)
  /\ fn' = "getGitlabProjectId"
  /\ UNCHANGED <<argList, argId, retText, retNumber, retList>>
  /\ UNCHANGED runVars

NextFn ==
  \/ CallMapStatusFromLabels
  \/ CallMapStatusFromLabelsOld
  \/ CallMapPriority
  \/ CallMapLabels
  \/ CallMapGitlabIdToEmail
  \/ CallReplaceUploads
  \/ CallGetGitlabProjectId

SpecFn == Init /\ [][NextFn]_vars

(* ------------------------------ properties --------------------------- *)

MinOf(S) == CHOOSE i \in S : \A j \in S : i <= j
MaxOf(S) == CHOOSE i \in S : \A j \in S : j <= i

\* C1: once a response with a status other than 200 is received (project
\* search, issue list or notes), it is the last thing the run did on the
\* network: the run has ended in an error, no request is in flight or sent
\* after it, and no ImportResult (not even a partial one) is handed out.
C1_FailFast ==
  \A i \in 1..Len(requests) :
    (requests[i].ev = "recv" /\ requests[i].status # 200) =>
      /\ i = Len(requests)
      /\ pc = "error"
      /\ error # <<>>
      /\ inflight = 0
      /\ result = NoResult

\* the notes of the first of two issues fail with 401: one issue is left
C1_Witness ==
  /\ pc = "error"
  /\ Len(issues) = 2
  /\ idx = 1
  /\ requests[Len(requests)] = Recv("notes", issues[1].iid, 401)
  /\ result = NoResult

\* C3: the requests are strictly sequential. At most one is in flight; sends
\* and responses alternate, each response answering the send before it; the
\* first send is the project search, the second the issue list, and the k-th
\* send after that asks for the notes of the k-th issue of the list the
\* service returned.
C3_Sequential ==
  /\ inflight <= 1
  /\ \A i \in 1..Len(requests) :
       /\ (requests[i].ev = "send") <=> (i % 2 = 1)
       /\ (i % 2 = 0) =>
            /\ requests[i].endpoint = requests[i - 1].endpoint
            /\ requests[i].iid = requests[i - 1].iid
       /\ (i = 1) => requests[i] = Send("projects", 0)
       /\ (i = 3) => requests[i] = Send("issues", 0)
       /\ (i > 3 /\ i % 2 = 1) =>
            /\ (i - 3) \div 2 <= Len(issueList)
            /\ requests[i] = Send("notes", issueList[(i - 3) \div 2].iid)

\* a run over at least two issues that fetched the notes of each
C3_Witness ==
  /\ pc = "done"
  /\ Len(issueList) >= 2
  /\ Len(requests) = 4 + 2 * Len(issueList)

\* every assignee of every issue, in issue order: <<issue index, position>>
AssigneePositions ==
  UNION {{<<i, j>> : j \in 1..Len(issueList[i].assignees)} : i \in 1..Len(issueList)}

LastPosition(id) ==
  CHOOSE p \in AssigneePositions :
    /\ issueList[p[1]].assignees[p[2]].id = id
    /\ \A q \in AssigneePositions :
         issueList[q[1]].assignees[q[2]].id = id =>
           (q[1] < p[1] \/ (q[1] = p[1] /\ q[2] <= p[2]))

\* C8: after a successful import the label dictionary holds exactly the
\* normalized labels of the imported issues, each with the record
\* {name: label}, and the user dictionary holds exactly the ids of all
\* assignees of all issues, each with the record of the id's last occurrence
\* in issue order.
C8_Dictionaries ==
  pc = "done" =>
    /\ DOMAIN result.labels =
         UNION {Range(mapLabels(issueList[i].labels)) : i \in 1..Len(issueList)}
    /\ \A l \in DOMAIN result.labels : result.labels[l] = [name |-> l]
    /\ DOMAIN result.users =
         {issueList[p[1]].assignees[p[2]].id : p \in AssigneePositions}
    /\ \A id \in DOMAIN result.users :
         LET a == issueList[LastPosition(id)[1]].assignees[LastPosition(id)[2]]
         IN  result.users[id] = [name |-> a.name, avatarUrl |-> a.avatar_url]

\* an id recurs with another record in a later issue, as a second assignee
\* too, and a normalized label recurs
C8_Witness ==
  /\ pc = "done"
  /\ \E p, q \in AssigneePositions :
       /\ p[1] < q[1]
       /\ issueList[p[1]].assignees[p[2]].id = issueList[q[1]].assignees[q[2]].id
       /\ issueList[p[1]].assignees[p[2]] # issueList[q[1]].assignees[q[2]]
  /\ \E p \in AssigneePositions : p[2] > 1
  /\ \E i, j \in 1..Len(issueList) :
       /\ i < j
       /\ Range(mapLabels(issueList[i].labels))
            \cap Range(mapLabels(issueList[j].labels)) # {}

\* C9: labels, priority and status of every imported issue are derived from
\* the label list as the service returned it, and the fetched issue still
\* holds that list after the import.
C9_OriginalLabels ==
  pc = "done" =>
    /\ Len(result.issues) = Len(issueList)
    /\ Len(issues) = Len(issueList)
    /\ \A i \in 1..Len(issueList) :
         /\ result.issues[i].labels = mapLabels(issueList[i].labels)
         /\ result.issues[i].priority = mapPriority(issueList[i].labels)
         /\ result.issues[i].status = mapStatusFromLabels(issueList[i].labels)
         /\ issues[i].labels = issueList[i].labels

\* an issue whose normalization removes the very markers priority and status
\* are derived from
C9_Witness ==
  /\ pc = "done"
  /\ \E i \in 1..Len(issueList) :
       LET original == issueList[i].labels
       IN  /\ mapLabels(original) # original
           /\ mapPriority(mapLabels(original)) # mapPriority(original)
           /\ mapStatusFromLabels(mapLabels(original)) # mapStatusFromLabels(original)
           /\ result.issues[i].priority = mapPriority(original)

(* ---- properties of single calls ---- *)

KnownPrio == DOMAIN priorityMap

PrioHits(labels) == {i \in 1..Len(labels) : labels[i] \in IncludesPrio}

KnownHits(labels) == {i \in 1..Len(labels) : labels[i] \in KnownPrio}

\* C7 as stated: labels with an unknown priority marker count as absent, so
\* the result is the rank of the first known marker, or 0 without one.
C7_UnknownAbsent ==
  fn = "mapPriority" =>
    retNumber = IF KnownHits(argList) = {} THEN 0
          ELSE priorityMap[argList[MinOf(KnownHits(argList))]]

\* C7 amended: the first label that contains the priority-marker substring
\* decides: its rank when it is a known marker, 0 when it is not (later
\* labels are not consulted) and 0 when no label contains the substring.
C7_FirstMarkerDecides ==
  fn = "mapPriority" =>
    IF PrioHits(argList) = {} THEN retNumber = 0
    ELSE IF argList[MinOf(PrioHits(argList))] \in KnownPrio
      THEN retNumber = priorityMap[argList[MinOf(PrioHits(argList))]]
    ELSE retNumber = 0

\* an unknown marker in front of a known one
C7_Witness ==
  /\ fn = "mapPriority"
  /\ Len(argList) >= 2
  /\ argList[1] = "Prio :: 4"
  /\ argList[2] = "Prio :: 1"
  /\ retNumber = 0

\* C2: the resolver returns the id of an entry whose path equals the name,
\* and fails with the project-not-found error for the name when no entry's
\* path equals it.
C2_ExactPathOrNotFound ==
  (fn = "getGitlabProjectId" /\ argSearch.status = 200) =>
    LET exact == {i \in 1..Len(argSearch.projects) : argSearch.projects[i].path = projectName}
    IN  IF exact # {}
        THEN retProject.ok /\ \E i \in exact : retProject.id = argSearch.projects[i].id
        ELSE /\ ~retProject.ok
             /\ retProject.message \in {ProjectNotFound(projectName),
                                 <<"Failed to get project: ">> \o ProjectNotFound(projectName)}

StatusMarkers(labels) == {i \in 1..Len(labels) : labels[i] \in DOMAIN statuses}

\* C4: status derivation returns what the status table maps the last status
\* marker of the list to, and the default status when the list has none.
C4_LastMarkerWins ==
  fn = "mapStatusFromLabels" =>
    retText = IF StatusMarkers(argList) = {} THEN DefaultStatus
          ELSE statuses[argList[MaxOf(StatusMarkers(argList))]]

\* C5: label normalization is idempotent.
C5_Idempotent ==
  fn = "mapLabels" => mapLabels(retList) = retList

\* C6: the normalized labels hold no removable label, no priority marker and
\* no status marker.
C6_NoMarkerLeft ==
  fn = "mapLabels" =>
    \A l \in Range(retList) :
      /\ l \notin Range(removableLabels)
      /\ l \notin IncludesPrio
      /\ l \notin DOMAIN statuses

\* an occurrence of "/uploads/" that is not the tail of the absolute
\* project-scoped URL
Relative(body, i) ==
  /\ body[i] = "/uploads/"
  /\ ~(i >= 3 /\ body[i - 2] = UploadsHost /\ body[i - 1] = projectName)

\* C10: no upload-relative path remains in an imported body, and a body
\* without one is imported unchanged.
C10_NoRelativeUploadLeft ==
  fn = "replace" =>
    /\ \A i \in 1..Len(retList) : ~Relative(retList, i)
    /\ (\A i \in 1..Len(argList) : ~Relative(argList, i)) => retList = argList

====
